---- MODULE Spec2Model ----
(***************************************************************************)
(* A model of the oort3 benchmark harness (src/src/main.rs).               *)
(*                                                                         *)
(* Spec / FairSpec : one call of run_simulations (a Round): the sequential *)
(*                   map over the seeds, each trial stepped by             *)
(*                   run_simulation, then the fold into Results.           *)
(* MatrixSpec      : main's parallel fan-out over the scene mapping, each  *)
(*                   scene worker running run_benchmark (two Rounds in     *)
(*                   parallel) and then bumping the progress counter.      *)
(*                                                                         *)
(* The simulation engine (oort_simulator) is external: what status() says  *)
(* after each step and what score_time() returns are nondeterministic.     *)
(***************************************************************************)
EXTENDS Integers, Sequences, FiniteSets, TLC

\* ------------------------------------------------------------------ bounds
\* scenario::MAX_TICKS, scaled down (the loop only compares tick with it)
MAX_TICKS == 3
\* largest value of args.rounds explored for one Round
MaxRounds == 2
\* largest team index the engine may put in Victory{team}; 0 and 1 are valid
MaxTeam == 2
\* score_time() values range over 1..MaxTime
MaxTime == 2
\* largest value of args.rounds explored in a matrix run
MatrixRounds == 1
\* longest scene listing explored
MaxListing == 2
\* largest value of args.rounds explored when one scenario is compared
CompareRounds == 5

\* ------------------------------------------------------------------ Status
Running == [kind |-> "Running", team |-> 0]
Draw == [kind |-> "Draw", team |-> 0]
Failed == [kind |-> "Failed", team |-> 0]
Victory(t) == [kind |-> "Victory", team |-> t]

Status == {Running, Draw, Failed} \cup {Victory(t) : t \in 0..MaxTeam}
Times == 1..MaxTime

\* ------------------------------------------------------------------ Results
\* #[derive(Default)] struct Results
DefaultResults == [team0_wins |-> <<>>, team1_wins |-> <<>>, draws |-> <<>>, times |-> <<>>]

Ok(v) == [tag |-> "Ok", val |-> v]
Err(m) == [tag |-> "Err", msg |-> m]
NoReturn == [tag |-> "None"]

\* the seeds of (0..rounds)
SeedRange(n) == 0..(n - 1)

Elems(s) == {s[i] : i \in DOMAIN s}

\* ------------------------------------------------------------------ state
VARIABLES
  rounds,         \* args.rounds, the `rounds` parameter of run_simulations
  pc,             \* position inside run_simulations: "map", "loop", "fold", "done"
  seed,           \* the seed the map over (0..rounds) is at
  sim,            \* the Simulation of the running trial: [status, tick]
  steps,          \* sim.step() calls made by the running (or last) trial
  warned,         \* seeds for which "exceeding max ticks" was logged
  seed_statuses,  \* the collected Vec<(u32, (Status, f64))>
  foldIdx,        \* position of the for loop over seed_statuses
  results,        \* the local `results` accumulator
  ret             \* what run_simulations returned

roundVars == <<rounds, pc, seed, sim, steps, warned, seed_statuses, foldIdx, results, ret>>

VARIABLES
  scenes,         \* the scene listing, Vec<String>
  listIdx,        \* position of the for loop over scenes
  scene_mapping,  \* HashMap scene name -> enemy Code
  loads,          \* scenario::load_safe calls made so far, per scene name
  converted,      \* converted_scene_mapping, Vec<(String, Code)>
  mpc,            \* main's position
  wpc,            \* position of the par_iter closure of each converted entry
  rres,           \* per entry and player: what run_simulations_packaged returned
  bres,           \* per entry: the BenchmarkResults run_benchmark returned
  completed_num,  \* the AtomicUsize
  observed,       \* per entry: the `completed` value its closure loaded
  stdout,         \* the lines printed with println!
  bench_results,  \* the collected Vec<BenchmarkResults>
  printIdx,       \* position of the for loop over the collected results
  competitor,     \* per player: the trial returns the engine yields with its code on team 0
  sim_codes       \* per entry and player: the codes vector its Round was run with

matrixVars == <<scenes, listIdx, scene_mapping, loads, converted, mpc, wpc, rres, bres,
                completed_num, observed, stdout, bench_results, printIdx, competitor,
                sim_codes>>

NoSim == [status |-> Running, tick |-> 0]

\* ------------------------------------------------------------------ run_simulation
\* simulation::Simulation::new(scenario_name, seed, &codes): the tick starts at 0;
\* the status the engine reports before any step is the engine's choice
NewSim(st) == [status |-> st, tick |-> 0]

\* sim.step(): one tick further, and the engine decides the status again
SimStep(s, st) == [status |-> st, tick |-> s.tick + 1]

\* the budget check off by one: the loop would run one step past the budget
TickBudgetHitLate(s) == s.tick = MAX_TICKS + 1

\* if sim.tick() == scenario::MAX_TICKS
TickBudgetHit(s) == s.tick = MAX_TICKS

\* the budget branch handing back a terminal status the last step produced
BudgetReturnStatus(s) == IF s.status = Running THEN Failed ELSE s.status

\* the budget branch handing back whatever sim.status() is
BudgetReturnSimStatus(s) == s.status

\* return (Status::Failed, sim.score_time()): the status of the budget branch,
\* whatever the step made of sim.status()
BudgetReturn(s) == Failed

\* while sim.status() == Status::Running
LoopCond(s) == s.status = Running

\* the tuple a trial hands back to the map: (seed, (status, time))
Entry(sd, st, t) == [seed |-> sd, status |-> st, time |-> t]

\* .map(|seed| (seed, run_simulation(..))): the call for the next seed
StartTrial ==
  /\ pc = "map"
  /\ seed \in SeedRange(rounds)
  /\ \E st \in Status : sim' = NewSim(st)
  /\ steps' = 0
  /\ pc' = "loop"
  /\ UNCHANGED <<rounds, seed, warned, seed_statuses, foldIdx, results, ret>>
  /\ UNCHANGED matrixVars

\* one iteration of the while loop: step, then the tick budget check; on the
\* budget the trial returns (Status::Failed, score_time) after the warning
LoopStep ==
  /\ pc = "loop"
  /\ LoopCond(sim)
  /\ \E st \in Status :
       LET s2 == SimStep(sim, st) IN
       /\ sim' = s2
       /\ steps' = steps + 1
       /\ IF TickBudgetHit(s2)
            THEN /\ warned' = warned \cup {seed}
                 /\ \E t \in Times :
                      seed_statuses' = Append(seed_statuses, Entry(seed, BudgetReturn(s2), t))
                 /\ seed' = seed + 1
                 /\ pc' = "map"
            ELSE /\ pc' = "loop"
                 /\ UNCHANGED <<warned, seed_statuses, seed>>
  /\ UNCHANGED <<rounds, foldIdx, results, ret>>
  /\ UNCHANGED matrixVars

\* the loop condition fails: (sim.status(), sim.score_time())
LoopExit ==
  /\ pc = "loop"
  /\ ~LoopCond(sim)
  /\ \E t \in Times :
       seed_statuses' = Append(seed_statuses, Entry(seed, sim.status, t))
  /\ seed' = seed + 1
  /\ pc' = "map"
  /\ UNCHANGED <<rounds, sim, steps, warned, foldIdx, results, ret>>
  /\ UNCHANGED matrixVars

\* ------------------------------------------------------------------ run_simulations
\* Failed handled like a draw
ClassifyFailedAsDraw(st) ==
  IF st = Victory(0) THEN "team0_wins"
  ELSE IF st = Victory(1) THEN "team1_wins"
  ELSE IF st.kind = "Victory" THEN "invalid_team"
  ELSE IF st = Draw THEN "draws"
  ELSE IF st = Failed THEN "draws"
  ELSE "running"

\* Failed rejected as an error
ClassifyFailedAsError(st) ==
  IF st = Victory(0) THEN "team0_wins"
  ELSE IF st = Victory(1) THEN "team1_wins"
  ELSE IF st.kind = "Victory" THEN "invalid_team"
  ELSE IF st = Draw THEN "draws"
  ELSE "running"

\* every team other than 0 coerced to team 1
ClassifyCoerceTeam(st) ==
  IF st = Victory(0) THEN "team0_wins"
  ELSE IF st.kind = "Victory" THEN "team1_wins"
  ELSE IF st = Draw THEN "draws"
  ELSE IF st = Failed THEN "team1_wins"
  ELSE "running"

\* the match on status: which arm is taken
Classify(st) ==
  IF st = Victory(0) THEN "team0_wins"
  ELSE IF st = Victory(1) THEN "team1_wins"
  ELSE IF st.kind = "Victory" THEN "invalid_team"
  ELSE IF st = Draw THEN "draws"
  ELSE IF st = Failed THEN "team1_wins"
  ELSE "running"

\* the time pushed only for wins of team 0
PushResultTimeOnWin(r, bucket, sd, t) ==
  IF bucket = "team0_wins"
    THEN [r EXCEPT ![bucket] = Append(@, sd), !.times = Append(@, t)]
    ELSE [r EXCEPT ![bucket] = Append(@, sd)]

\* a draw also pushed as a win of team 1
PushResultDrawTwice(r, bucket, sd, t) ==
  IF bucket = "draws"
    THEN [r EXCEPT !.draws = Append(@, sd), !.team1_wins = Append(@, sd),
                   !.times = Append(@, t)]
    ELSE [r EXCEPT ![bucket] = Append(@, sd), !.times = Append(@, t)]

\* the time stored in place of the times instead of pushed
PushResultKeepLastTime(r, bucket, sd, t) ==
  [r EXCEPT ![bucket] = Append(@, sd), !.times = <<t>>]

\* the push of the arm taken, then results.times.push(time)
PushResult(r, bucket, sd, t) ==
  [r EXCEPT ![bucket] = Append(@, sd), !.times = Append(@, t)]

\* the error an arm returns: format!("Invalid team {}", s) or the Running message
FoldError(st) ==
  IF st.kind = "Victory" THEN <<"Invalid team", st.team>>
  ELSE <<"Scenario should not be running">>

IsErrorArm(st) == Classify(st) \in {"invalid_team", "running"}

\* .collect() is complete: results = Default::default(), the for loop starts
Collected ==
  /\ pc = "map"
  /\ seed \notin SeedRange(rounds)
  /\ results' = DefaultResults
  /\ foldIdx' = 1
  /\ pc' = "fold"
  /\ UNCHANGED <<rounds, seed, sim, steps, warned, seed_statuses, ret>>
  /\ UNCHANGED matrixVars

\* one iteration of the for loop over seed_statuses; an error arm returns Err at
\* once and the local results are dropped
FoldOne ==
  /\ pc = "fold"
  /\ foldIdx <= Len(seed_statuses)
  /\ LET e == seed_statuses[foldIdx] IN
       IF IsErrorArm(e.status)
         THEN /\ ret' = Err(FoldError(e.status))
              /\ results' = DefaultResults
              /\ pc' = "done"
              /\ UNCHANGED foldIdx
         ELSE /\ results' = PushResult(results, Classify(e.status), e.seed, e.time)
              /\ foldIdx' = foldIdx + 1
              /\ UNCHANGED <<ret, pc>>
  /\ UNCHANGED <<rounds, seed, sim, steps, warned, seed_statuses>>
  /\ UNCHANGED matrixVars

\* Ok(results)
FoldDone ==
  /\ pc = "fold"
  /\ foldIdx > Len(seed_statuses)
  /\ ret' = Ok(results)
  /\ pc' = "done"
  /\ UNCHANGED <<rounds, seed, sim, steps, warned, seed_statuses, foldIdx, results>>
  /\ UNCHANGED matrixVars

\* ------------------------------------------------------------------ a Round as a function
\* what the engine reports after 0, 1, .. MAX_TICKS steps of one trial
Scripts == [0..MAX_TICKS -> Status]

\* the while loop of run_simulation against one script of the engine
RECURSIVE RunLoop(_, _)
RunLoop(s, script) ==
  IF LoopCond(s)
    THEN LET s2 == SimStep(s, script[s.tick + 1]) IN
         IF TickBudgetHit(s2) THEN BudgetReturn(s2) ELSE RunLoop(s2, script)
    ELSE s.status

\* the Status run_simulation returns for one script
run_simulation(script) == RunLoop(NewSim(script[0]), script)

\* every (Status, time) a trial can hand back
TrialReturns == {run_simulation(script) : script \in Scripts} \X Times

\* the for loop of run_simulations over entries i.. of the collected vector
RECURSIVE FoldFrom(_, _, _)
FoldFrom(r, entries, i) ==
  IF i > Len(entries) THEN Ok(r)
  ELSE IF IsErrorArm(entries[i].status) THEN Err(FoldError(entries[i].status))
  ELSE FoldFrom(PushResult(r, Classify(entries[i].status), entries[i].seed, entries[i].time),
                entries, i + 1)

\* run_simulations for the trial returns rets[1..rounds] of seeds 0..rounds-1
run_simulations(rets) ==
  FoldFrom(DefaultResults,
           [i \in 1..Len(rets) |-> Entry(i - 1, rets[i][1], rets[i][2])], 1)

\* the trial returns a matrix run is explored with: a win of team 0, a draw and
\* a Victory of a team that does not exist, all with the same score time
MatrixReturns ==
  {r \in TrialReturns : r[1] \in {Victory(0), Draw, Victory(MaxTeam)} /\ r[2] = MaxTime}

\* the sequences of n elements of S
SeqsOf(S, n) == [1..n -> S]

\* the competitors a comparison is explored with: one for every trial return,
\* yielding it on every seed, and one that wins fast or loses slowly
Competitors ==
  {{r} : r \in TrialReturns} \cup {{<<Victory(0), 1>>, <<Victory(1), MaxTime>>}}

\* ------------------------------------------------------------------ the scenario catalogue
SceneNames == {"duel", "chase", "nope"}

\* the two competitors, in the order of vec![compiled_baseline, compiled_new]
Players == <<"baseline", "new">>
PlayerSet == Elems(Players)

Code(kind, text) == [kind |-> kind, text |-> text]

\* scenario::load_safe(name) and initial_code()[1] of what it finds: "nope" is
\* in no catalogue; the scenes of this catalogue all have a team-1 source
load_safe(name) ==
  CASE name = "duel" -> [found |-> TRUE, enemy |-> Code("Builtin", "basic_opponent")]
    [] name = "chase" -> [found |-> TRUE, enemy |-> Code("Rust", "chase_enemy")]
    [] OTHER -> [found |-> FALSE, enemy |-> Code("None", "")]

\* the match on `enemy` in run_benchmark: is there a source to compile
EnemySourceOk(code) == code.kind \in {"Rust", "Builtin"}

\* compiler.compile(&src): the AI's compiled_code
Compiled(text) == Code("Wasm", text)

\* the AI main builds for a player from the file its shortcode names
PlayerAI(p) == Compiled(p)

\* the AI run_benchmark builds from the scene's enemy code
EnemyAI(code) == Compiled(code.text)

\* the enemy put first
RoundCodesEnemyFirst(player, enemy) == <<enemy, player>>

\* vec![player.compiled_code.clone(), enemy.compiled_code.clone()]
RoundCodes(player, enemy) == <<player, enemy>>

\* the trial returns the engine can yield for a codes vector: they are the
\* team-0 competitor's; for any other code on team 0 they are unconstrained
EngineReturns(codes) ==
  IF codes[1].text \in DOMAIN competitor THEN competitor[codes[1].text] ELSE MatrixReturns

\* the two results taken the other way round
CollectedAtSwapped(rr, k) == rr[Players[3 - k]]

\* res[k - 1] of the collected Vec<Results>: par_iter keeps the order of the
\* vector it was made from, whichever task ends first
CollectedAt(rr, k) == rr[Players[k]]

\* an Err taken for an empty Results instead of a panic
UnwrapOrDefault(r) ==
  [panics |-> FALSE, val |-> IF r.tag = "Ok" THEN r.val ELSE DefaultResults]

\* Result::unwrap() of what run_simulations_packaged returned
Unwrap(r) ==
  IF r.tag = "Ok" THEN [panics |-> FALSE, val |-> r.val]
  ELSE [panics |-> TRUE, val |-> DefaultResults]

\* an increment that is lost
FetchAddLost(c, n) == c

\* AtomicUsize::fetch_add(n): the value the counter holds afterwards
FetchAdd(c, n) == c + n

\* scene_mapping.insert(name, code)
MapInsert(m, name, code) ==
  [x \in DOMAIN m \cup {name} |-> IF x = name THEN code ELSE m[x]]

\* the orders in which a HashMap of these keys may be iterated
Orders(keys) ==
  {f \in [1..Cardinality(keys) -> keys] : \A i, j \in DOMAIN f : i # j => f[i] # f[j]}

\* the length of the listing taken for the total, repeated names counted again
totalOfListing == Len(scenes)

\* let total = converted_scene_mapping.len()
total == Len(converted)

NoBench == [scene |-> "", baseline |-> DefaultResults, new |-> DefaultResults]

RECURSIVE SumSeq(_)
SumSeq(xs) == IF xs = <<>> THEN 0 ELSE Head(xs) + SumSeq(Tail(xs))

\* the avg_time closure: the sum of the times over their number (0/0 is NaN)
avg_time(r) == [sum |-> SumSeq(r.times), n |-> Len(r.times)]

\* the new wins set against the baseline's losses
win_changeVsLosses(b) == Len(b.new.team0_wins) - Len(b.baseline.team1_wins)

\* the difference taken the other way round
win_changeReversed(b) == Len(b.baseline.team0_wins) - Len(b.new.team0_wins)

\* win_change of Display for BenchmarkResults
win_change(b) == Len(b.new.team0_wins) - Len(b.baseline.team0_wins)

\* x - y of two averages, as a fraction
AvgDiff(x, y) == [num |-> x.sum * y.n - y.sum * x.n, den |-> x.n * y.n]

\* the "Avg time change" part of Display: which of the three branches is taken
\* and the difference it writes. With no times an average is 0/0, NaN: both
\* comparisons are false and the last branch writes NaN.
avg_time_change(b) ==
  LET ba == avg_time(b.baseline)
      na == avg_time(b.new) IN
  IF ba.n = 0 \/ na.n = 0 THEN [dir |-> "up", mag |-> [num |-> 0, den |-> 0]]
  ELSE IF na.sum * ba.n < ba.sum * na.n THEN [dir |-> "down", mag |-> AvgDiff(ba, na)]
  ELSE IF na.sum * ba.n = ba.sum * na.n THEN [dir |-> "none", mag |-> [num |-> 0, den |-> 1]]
  ELSE [dir |-> "up", mag |-> AvgDiff(na, ba)]

\* what Display for BenchmarkResults writes
Display(b) ==
  [win_change |-> win_change(b),
   wins |-> <<Len(b.baseline.team0_wins), Len(b.new.team0_wins)>>,
   avg_change |-> avg_time_change(b),
   avg |-> <<avg_time(b.baseline), avg_time(b.new)>>]

\* ------------------------------------------------------------------ main
\* one iteration of `for scene in scenes`: load_safe(..).expect(..), then insert
ResolveScene ==
  /\ mpc = "resolve"
  /\ listIdx <= Len(scenes)
  /\ LET name == scenes[listIdx]
         sc == load_safe(name) IN
       /\ loads' = [loads EXCEPT ![name] = @ + 1]
       /\ IF sc.found
            THEN /\ scene_mapping' = MapInsert(scene_mapping, name, sc.enemy)
                 /\ listIdx' = listIdx + 1
                 /\ UNCHANGED mpc
            ELSE /\ mpc' = "panicked"
                 /\ UNCHANGED <<scene_mapping, listIdx>>
  /\ UNCHANGED <<scenes, converted, wpc, rres, bres, completed_num, observed, stdout,
                 bench_results, printIdx>>
  /\ UNCHANGED <<competitor, sim_codes>>
  /\ UNCHANGED roundVars

\* the loop is over: the AIs are compiled, the mapping is turned into a vector
\* (in the HashMap's order), the counter is created and the par_iter starts
Dispatch ==
  /\ mpc = "resolve"
  /\ listIdx > Len(scenes)
  /\ \E order \in Orders(DOMAIN scene_mapping) :
       converted' = [i \in DOMAIN order |->
                       [scene |-> order[i], enemy |-> scene_mapping[order[i]]]]
  /\ completed_num' = 0
  /\ wpc' = [i \in DOMAIN converted' |-> "idle"]
  /\ rres' = [i \in DOMAIN converted' |-> [p \in PlayerSet |-> NoReturn]]
  /\ bres' = [i \in DOMAIN converted' |-> NoBench]
  /\ observed' = [i \in DOMAIN converted' |-> 0]
  /\ sim_codes' = [i \in DOMAIN converted' |-> [p \in PlayerSet |-> <<>>]]
  /\ stdout' = stdout \o << <<"Compiling inputted AIs">>, <<"Running Benchmarks">> >>
  /\ mpc' = "par"
  /\ UNCHANGED <<scenes, listIdx, scene_mapping, loads, bench_results, printIdx, competitor>>
  /\ UNCHANGED roundVars

\* the closure of entry i starts: run_benchmark gets the enemy's source and
\* compiles it, or panics on a code that has none
BenchStart(i) ==
  /\ mpc = "par"
  /\ wpc[i] = "idle"
  /\ wpc' = [wpc EXCEPT ![i] = IF EnemySourceOk(converted[i].enemy) THEN "bench" ELSE "panicked"]
  /\ UNCHANGED <<scenes, listIdx, scene_mapping, loads, converted, mpc, rres, bres,
                 completed_num, observed, stdout, bench_results, printIdx>>
  /\ UNCHANGED <<competitor, sim_codes>>
  /\ UNCHANGED roundVars

\* run_simulations_packaged for player p of entry i, one of the two tasks of
\* the inner par_iter: load_safe again, then run_simulations
RunRound(i, p) ==
  /\ wpc[i] = "bench"
  /\ rres[i][p] = NoReturn
  /\ loads' = [loads EXCEPT ![converted[i].scene] = @ + 1]
  /\ LET codes == RoundCodes(PlayerAI(p), EnemyAI(converted[i].enemy)) IN
       /\ sim_codes' = [sim_codes EXCEPT ![i][p] = codes]
       /\ \E rets \in SeqsOf(EngineReturns(codes), rounds) :
            rres' = [rres EXCEPT ![i][p] = run_simulations(rets)]
  /\ UNCHANGED <<scenes, listIdx, scene_mapping, converted, mpc, wpc, bres,
                 completed_num, observed, stdout, bench_results, printIdx, competitor>>
  /\ UNCHANGED roundVars

\* both Rounds unwrapped: res[0] is the baseline's, res[1] the new one's
BenchJoin(i) ==
  /\ wpc[i] = "bench"
  /\ \A p \in PlayerSet : rres[i][p] # NoReturn /\ ~Unwrap(rres[i][p]).panics
  /\ bres' = [bres EXCEPT ![i] = [scene |-> converted[i].scene,
                                  baseline |-> Unwrap(CollectedAt(rres[i], 1)).val,
                                  new |-> Unwrap(CollectedAt(rres[i], 2)).val]]
  /\ wpc' = [wpc EXCEPT ![i] = "built"]
  /\ UNCHANGED <<scenes, listIdx, scene_mapping, loads, converted, mpc, rres,
                 completed_num, observed, stdout, bench_results, printIdx>>
  /\ UNCHANGED <<competitor, sim_codes>>
  /\ UNCHANGED roundVars

\* .unwrap() on an Err: the task panics and the panic leaves run_benchmark
BenchPanic(i) ==
  /\ wpc[i] = "bench"
  /\ \E p \in PlayerSet : rres[i][p] # NoReturn /\ Unwrap(rres[i][p]).panics
  /\ wpc' = [wpc EXCEPT ![i] = "panicked"]
  /\ UNCHANGED <<scenes, listIdx, scene_mapping, loads, converted, mpc, rres, bres,
                 completed_num, observed, stdout, bench_results, printIdx>>
  /\ UNCHANGED <<competitor, sim_codes>>
  /\ UNCHANGED roundVars

\* completed_num.fetch_add(1, SeqCst)
Increment(i) ==
  /\ wpc[i] = "built"
  /\ completed_num' = FetchAdd(completed_num, 1)
  /\ wpc' = [wpc EXCEPT ![i] = "added"]
  /\ UNCHANGED <<scenes, listIdx, scene_mapping, loads, converted, mpc, rres, bres,
                 observed, stdout, bench_results, printIdx>>
  /\ UNCHANGED <<competitor, sim_codes>>
  /\ UNCHANGED roundVars

\* let completed = completed_num.load(SeqCst)
LoadCompleted(i) ==
  /\ wpc[i] = "added"
  /\ observed' = [observed EXCEPT ![i] = completed_num]
  /\ wpc' = [wpc EXCEPT ![i] = "loaded"]
  /\ UNCHANGED <<scenes, listIdx, scene_mapping, loads, converted, mpc, rres, bres,
                 completed_num, stdout, bench_results, printIdx>>
  /\ UNCHANGED <<competitor, sim_codes>>
  /\ UNCHANGED roundVars

\* println!("Completed {completed}/{total} benchmarks"), and the closure returns
PrintCompleted(i) ==
  /\ wpc[i] = "loaded"
  /\ stdout' = Append(stdout, <<"Completed", observed[i], total>>)
  /\ wpc' = [wpc EXCEPT ![i] = "done"]
  /\ UNCHANGED <<scenes, listIdx, scene_mapping, loads, converted, mpc, rres, bres,
                 completed_num, observed, bench_results, printIdx>>
  /\ UNCHANGED <<competitor, sim_codes>>
  /\ UNCHANGED roundVars

\* every closure returned: .collect() yields the results in the vector's order
Collect ==
  /\ mpc = "par"
  /\ \A i \in DOMAIN wpc : wpc[i] = "done"
  /\ bench_results' = [i \in DOMAIN bres |-> bres[i]]
  /\ stdout' = Append(stdout, <<"Results">>)
  /\ printIdx' = 1
  /\ mpc' = "results"
  /\ UNCHANGED <<scenes, listIdx, scene_mapping, loads, converted, wpc, rres, bres,
                 completed_num, observed>>
  /\ UNCHANGED <<competitor, sim_codes>>
  /\ UNCHANGED roundVars

\* a closure panicked: once no closure is running any more the panic resumes in
\* main, which never gets the vector
MainPanic ==
  /\ mpc = "par"
  /\ \E i \in DOMAIN wpc : wpc[i] = "panicked"
  /\ \A i \in DOMAIN wpc : wpc[i] \in {"idle", "done", "panicked"}
  /\ mpc' = "panicked"
  /\ UNCHANGED <<scenes, listIdx, scene_mapping, loads, converted, wpc, rres, bres,
                 completed_num, observed, stdout, bench_results, printIdx>>
  /\ UNCHANGED <<competitor, sim_codes>>
  /\ UNCHANGED roundVars

\* one iteration of `for result in results`
PrintResult ==
  /\ mpc = "results"
  /\ printIdx <= Len(bench_results)
  /\ stdout' = stdout \o << <<"Results for", bench_results[printIdx].scene>>,
                            <<"Display", Display(bench_results[printIdx])>> >>
  /\ printIdx' = printIdx + 1
  /\ UNCHANGED <<scenes, listIdx, scene_mapping, loads, converted, mpc, wpc, rres, bres,
                 completed_num, observed, bench_results>>
  /\ UNCHANGED <<competitor, sim_codes>>
  /\ UNCHANGED roundVars

\* Ok(())
Exit ==
  /\ mpc = "results"
  /\ printIdx > Len(bench_results)
  /\ mpc' = "exit"
  /\ UNCHANGED <<scenes, listIdx, scene_mapping, loads, converted, wpc, rres, bres,
                 completed_num, observed, stdout, bench_results, printIdx>>
  /\ UNCHANGED <<competitor, sim_codes>>
  /\ UNCHANGED roundVars

\* ------------------------------------------------------------------ specification
vars == <<roundVars, matrixVars>>

Init ==
  /\ rounds \in 0..MaxRounds
  /\ pc = "map"
  /\ seed = 0
  /\ sim = NoSim
  /\ steps = 0
  /\ warned = {}
  /\ seed_statuses = <<>>
  /\ foldIdx = 1
  /\ results = DefaultResults
  /\ ret = NoReturn
  /\ scenes = <<>>
  /\ listIdx = 1
  /\ scene_mapping = <<>>
  /\ loads = [n \in SceneNames |-> 0]
  /\ converted = <<>>
  /\ mpc = "unused"
  /\ wpc = <<>>
  /\ rres = <<>>
  /\ bres = <<>>
  /\ completed_num = 0
  /\ observed = <<>>
  /\ stdout = <<>>
  /\ bench_results = <<>>
  /\ printIdx = 1
  /\ competitor = <<>>
  /\ sim_codes = <<>>

Next ==
  \/ StartTrial
  \/ LoopStep
  \/ LoopExit
  \/ Collected
  \/ FoldOne
  \/ FoldDone

Spec == Init /\ [][Next]_vars

\* run_simulations is straight-line sequential code: it keeps running
FairSpec == Spec /\ WF_vars(Next)

\* main, started with a scene listing and a number of rounds
MatrixInit ==
  /\ scenes \in UNION {SeqsOf(SceneNames, n) : n \in 0..MaxListing}
  /\ rounds \in 0..MatrixRounds
  /\ listIdx = 1
  /\ scene_mapping = <<>>
  /\ loads = [n \in SceneNames |-> 0]
  /\ converted = <<>>
  /\ mpc = "resolve"
  /\ wpc = <<>>
  /\ rres = <<>>
  /\ bres = <<>>
  /\ completed_num = 0
  /\ observed = <<>>
  /\ stdout = <<>>
  /\ bench_results = <<>>
  /\ printIdx = 1
  /\ competitor = [p \in PlayerSet |-> MatrixReturns]
  /\ sim_codes = <<>>
  /\ pc = "unused"
  /\ seed = 0
  /\ sim = NoSim
  /\ steps = 0
  /\ warned = {}
  /\ seed_statuses = <<>>
  /\ foldIdx = 1
  /\ results = DefaultResults
  /\ ret = NoReturn

MatrixNext ==
  \/ ResolveScene
  \/ Dispatch
  \/ \E i \in DOMAIN wpc : BenchStart(i)
  \/ \E i \in DOMAIN wpc : \E p \in PlayerSet : RunRound(i, p)
  \/ \E i \in DOMAIN wpc : BenchJoin(i)
  \/ \E i \in DOMAIN wpc : BenchPanic(i)
  \/ \E i \in DOMAIN wpc : Increment(i)
  \/ \E i \in DOMAIN wpc : LoadCompleted(i)
  \/ \E i \in DOMAIN wpc : PrintCompleted(i)
  \/ Collect
  \/ MainPanic
  \/ PrintResult
  \/ Exit

MatrixSpec == MatrixInit /\ [][MatrixNext]_vars

\* main, started with one scene and two competitors whose outcomes are known
CompareInit ==
  /\ scenes = <<"duel">>
  /\ rounds \in 0..CompareRounds
  /\ competitor \in [PlayerSet -> Competitors]
  /\ listIdx = 1
  /\ scene_mapping = <<>>
  /\ loads = [n \in SceneNames |-> 0]
  /\ converted = <<>>
  /\ mpc = "resolve"
  /\ wpc = <<>>
  /\ rres = <<>>
  /\ bres = <<>>
  /\ completed_num = 0
  /\ observed = <<>>
  /\ stdout = <<>>
  /\ bench_results = <<>>
  /\ printIdx = 1
  /\ sim_codes = <<>>
  /\ pc = "unused"
  /\ seed = 0
  /\ sim = NoSim
  /\ steps = 0
  /\ warned = {}
  /\ seed_statuses = <<>>
  /\ foldIdx = 1
  /\ results = DefaultResults
  /\ ret = NoReturn

CompareSpec == CompareInit /\ [][MatrixNext]_vars

\* ------------------------------------------------------------------ properties of a Round
NoDup(s) == Cardinality(Elems(s)) = Len(s)

Disjoint3(a, b, c) == a \cap b = {} /\ a \cap c = {} /\ b \cap c = {}

Buckets(r) == Elems(r.team0_wins) \cup Elems(r.team1_wins) \cup Elems(r.draws)

RoundOk == pc = "done" /\ ret.tag = "Ok"
RoundErr == pc = "done" /\ ret.tag = "Err"

\* the entries the for loop has already folded
Folded == {seed_statuses[i] : i \in 1..(foldIdx - 1)}

\* the entry on which the for loop returned Err
ErrEntry == seed_statuses[foldIdx]

InvalidTeam(st) == st.kind = "Victory" /\ st.team \notin {0, 1}

\* seeds whose trial ran out of ticks, and seeds whose engine reported Failed itself
TimedOutSeeds == warned
EngineFailedSeeds ==
  {e.seed : e \in {x \in Elems(seed_statuses) : x.status = Failed /\ x.seed \notin warned}}

\* C1 as stated: the returned Results has four pairwise disjoint categories
\* (team0_wins, team1_wins, draws, timed out) whose union is 0..rounds-1.
C1_FourDisjointCategories ==
  (RoundOk /\ rounds >= 1) =>
    /\ Disjoint3(Elems(ret.val.team0_wins), Elems(ret.val.team1_wins), Elems(ret.val.draws))
    /\ Disjoint3(Elems(ret.val.team0_wins), TimedOutSeeds, Elems(ret.val.draws))
    /\ Elems(ret.val.team1_wins) \cap TimedOutSeeds = {}
    /\ Buckets(ret.val) \cup TimedOutSeeds = SeedRange(rounds)

\* C1 (amended): for rounds >= 1, a returned Results has three seed lists,
\* team0_wins, team1_wins and draws, that are pairwise disjoint, hold no seed
\* twice and together hold exactly the seeds 0..rounds-1; the timed-out seeds
\* are not a list of their own, they are among team1_wins.
C1_ThreeListsPartition ==
  (RoundOk /\ rounds >= 1) =>
    /\ Disjoint3(Elems(ret.val.team0_wins), Elems(ret.val.team1_wins), Elems(ret.val.draws))
    /\ NoDup(ret.val.team0_wins) /\ NoDup(ret.val.team1_wins) /\ NoDup(ret.val.draws)
    /\ Buckets(ret.val) = SeedRange(rounds)
    /\ TimedOutSeeds \subseteq Elems(ret.val.team1_wins)

C1_Witness ==
  /\ RoundOk /\ rounds >= 2
  /\ TimedOutSeeds # {}
  /\ ret.val.draws # <<>>

\* C2: a returned Results has exactly `rounds` times, and at every point of the
\* fold there are as many times as classified seeds.
C2_OneTimePerTrial ==
  /\ RoundOk => Len(ret.val.times) = rounds
  /\ pc = "fold" =>
       /\ Len(results.times) = foldIdx - 1
       /\ Len(results.times) =
            Len(results.team0_wins) + Len(results.team1_wins) + Len(results.draws)

C2_Witness == RoundOk /\ rounds >= 2 /\ Len(ret.val.times) = rounds /\ ret.val.team1_wins # <<>>

\* C3: a trial that runs out of ticks yields the timed-out outcome
\* (Status::Failed); its seed is folded into team1_wins, never into team0_wins
\* or draws, and it is never the entry on which the Round returns an error.
C3_TimedOutIsTeam1Win ==
  /\ \A e \in Elems(seed_statuses) : e.seed \in TimedOutSeeds => e.status = Failed
  /\ pc = "fold" =>
       \A e \in Folded : e.seed \in TimedOutSeeds =>
         /\ e.seed \in Elems(results.team1_wins)
         /\ e.seed \notin Elems(results.team0_wins) \cup Elems(results.draws)
  /\ RoundOk =>
       /\ TimedOutSeeds \subseteq Elems(ret.val.team1_wins)
       /\ TimedOutSeeds \cap (Elems(ret.val.team0_wins) \cup Elems(ret.val.draws)) = {}
  /\ RoundErr => ErrEntry.seed \notin TimedOutSeeds
  /\ (pc = "done" /\ TimedOutSeeds = SeedRange(rounds)) => ret.tag = "Ok"

C3_Witness == RoundOk /\ TimedOutSeeds = SeedRange(rounds) /\ rounds >= 1

\* C4: a Victory{team} with team outside {0, 1} makes the Round return an
\* error: that seed is in no bucket, and what was tallied before is dropped.
C4_InvalidTeamFailsRound ==
  \A e \in Elems(seed_statuses) : InvalidTeam(e.status) =>
    /\ e.seed \notin Buckets(results)
    /\ pc = "done" =>
         /\ ret.tag = "Err"
         /\ results = DefaultResults

C4_Witness ==
  /\ RoundErr /\ foldIdx > 1
  /\ InvalidTeam(ErrEntry.status)
  /\ ret.msg = <<"Invalid team", ErrEntry.status.team>>

\* C8 as stated: run_simulations with rounds = 0 returns an error.
C8_ZeroRoundsRejected == (pc = "done" /\ rounds = 0) => ret.tag = "Err"

\* C9 as stated: a trial whose engine reports Failed by itself makes the Round
\* fail, and its seed is in no bucket.
C9_EngineFailedIsError ==
  (pc = "done" /\ EngineFailedSeeds # {}) =>
    /\ ret.tag = "Err"
    /\ EngineFailedSeeds \cap Buckets(results) = {}

\* C9 (amended): a trial whose engine reports Failed by itself, without the
\* tick budget running out, is folded into team1_wins like a timed-out trial;
\* it is never the entry on which the Round returns an error, which is always
\* a Victory of a team outside {0, 1} or a Running status.
C9_EngineFailedIsTeam1Win ==
  /\ pc = "fold" =>
       \A e \in Folded : e.seed \in EngineFailedSeeds =>
         /\ e.seed \in Elems(results.team1_wins)
         /\ e.seed \notin Elems(results.team0_wins) \cup Elems(results.draws)
  /\ RoundOk => EngineFailedSeeds \subseteq Elems(ret.val.team1_wins)
  /\ RoundErr =>
       /\ ErrEntry.status # Failed
       /\ InvalidTeam(ErrEntry.status) \/ ErrEntry.status = Running

C9_Witness == RoundOk /\ EngineFailedSeeds # {} /\ TimedOutSeeds = {}

\* C10: a trial terminates by itself: its loop makes at most MAX_TICKS steps
\* and then hands back a status that is not Running (the engine's terminal
\* status, or Failed for a timed-out trial).
C10_TrialTerminates ==
  /\ [](steps <= MAX_TICKS)
  /\ [](\A e \in Elems(seed_statuses) : e.status # Running)
  /\ [](pc = "loop" => <>(pc # "loop"))

C10_Witness ==
  /\ pc = "map" /\ steps = MAX_TICKS
  /\ seed_statuses # <<>>
  /\ seed_statuses[Len(seed_statuses)].seed \in TimedOutSeeds

\* ------------------------------------------------------------------ properties of a matrix run
Workers == DOMAIN wpc

\* a Round of some scenario returned an error
SomeRoundFailed == \E i \in Workers : \E p \in PlayerSet : rres[i][p].tag = "Err"

\* the report lines main printed after the collect
ReportLines == {k \in DOMAIN stdout : stdout[k][1] \in {"Results", "Results for", "Display"}}

\* closures that have made their fetch_add
Incremented == {i \in Workers : wpc[i] \in {"added", "loaded", "done"}}

\* closures that have loaded the counter after their own increment
Observers == {i \in Workers : wpc[i] \in {"loaded", "done"}}

\* C5: once a Round of any scenario has failed, main never gets the vector of
\* BenchmarkResults and prints no report, whatever the other scenarios did.
C5_FailureAbortsMatrix ==
  SomeRoundFailed =>
    /\ mpc \in {"par", "panicked"}
    /\ bench_results = <<>>
    /\ ReportLines = {}

C5_Witness ==
  /\ mpc = "panicked"
  /\ SomeRoundFailed
  /\ \E i \in Workers : wpc[i] = "done"

\* C6: the counter never decreases and moves by one at a time; it counts the
\* closures that have made their increment, one each; and when main has
\* collected the results it equals the number of scenarios dispatched.
C6_CounterCountsCompleted ==
  /\ [](completed_num = Cardinality(Incremented))
  /\ [](mpc \in {"results", "exit"} => completed_num = total)
  /\ [][completed_num' = completed_num \/ completed_num' = completed_num + 1]_vars

C6_Witness == mpc = "exit" /\ completed_num = 2 /\ total = 2

\* C7 as stated: the values the closures load after their own increment are
\* pairwise distinct and are exactly 1 .. total.
C7_ObservedDistinct ==
  /\ \A i, j \in Observers : i # j => observed[i] # observed[j]
  /\ mpc \in {"results", "exit"} => {observed[i] : i \in Workers} = 1..total

\* how often the listing names scene n
Listed(n) == Cardinality({k \in DOMAIN scenes : scenes[k] = n})

\* C11 as stated: every listed scenario is loaded exactly once, in the resolve
\* loop before the dispatch, no closure loads it again, and every binding a
\* closure works with is the one resolved there.
C11_ResolvedOnce ==
  mpc \in {"par", "results", "exit"} =>
    /\ \A n \in DOMAIN scene_mapping : loads[n] = Listed(n)
    /\ \A i \in DOMAIN converted :
         converted[i].enemy = scene_mapping[converted[i].scene]

\* ------------------------------------------------------------------ properties of a comparison
\* closures that hold the BenchmarkResults of their scenario
Built == {i \in Workers : wpc[i] \in {"built", "added", "loaded", "done"}}

\* the BenchmarkResults of the same two Rounds with baseline and new exchanged
Swapped(b) == [scene |-> b.scene, baseline |-> b.new, new |-> b.baseline]

OppositeDir(d) == CASE d = "up" -> "down" [] d = "down" -> "up" [] OTHER -> d

\* C12: with baseline and new exchanged the win change is the negated one, and,
\* when there are times to average, the average time change has the same
\* magnitude and the opposite direction.
C12_SwapNegatesDeltas ==
  \A i \in Built :
    LET b == bres[i]
        sw == Swapped(bres[i]) IN
    /\ win_change(sw) = 0 - win_change(b)
    /\ rounds >= 1 =>
         /\ avg_time_change(sw).mag = avg_time_change(b).mag
         /\ avg_time_change(sw).dir = OppositeDir(avg_time_change(b).dir)

C12_Witness ==
  \E i \in Built :
    /\ win_change(bres[i]) < 0
    /\ win_change(Swapped(bres[i])) > 0
    /\ avg_time_change(bres[i]).dir = "up"
    /\ avg_time_change(bres[i]).mag.num > 0

AlwaysYields(p, st) == \A r \in competitor[p] : r[1] = st

\* C13: with rounds = 5, a baseline that wins every trial and a new competitor
\* that draws every trial, the baseline Results has team0_wins = [0,1,2,3,4],
\* the new Results has draws = [0,1,2,3,4] and the win change is -5.
C13_WinsAgainstDraws ==
  \A i \in Built :
    (rounds = 5 /\ AlwaysYields("baseline", Victory(0)) /\ AlwaysYields("new", Draw)) =>
      /\ bres[i].baseline.team0_wins = <<0, 1, 2, 3, 4>>
      /\ bres[i].new.draws = <<0, 1, 2, 3, 4>>
      /\ win_change(bres[i]) = 0 - 5

C13_Witness ==
  \E i \in Built :
    /\ rounds = 5 /\ AlwaysYields("baseline", Victory(0)) /\ AlwaysYields("new", Draw)
    /\ converted[i].scene = "duel"
    /\ bres[i].baseline.team0_wins = <<0, 1, 2, 3, 4>>
    /\ win_change(bres[i]) = 0 - 5

\* the Results a Round can return with competitor p on team 0
RoundsOf(p) ==
  {x.val : x \in {y \in {run_simulations(rets) : rets \in SeqsOf(competitor[p], rounds)} :
                    y.tag = "Ok"}}

\* r is the Results of some Round run with competitor p on team 0
IsRoundOf(p, r) ==
  \E rets \in SeqsOf(competitor[p], rounds) : run_simulations(rets) = Ok(r)

\* C14: in every BenchmarkResults, `baseline` is the Results of the Round run
\* with the baseline competitor on team 0 and `new` the one run with the new
\* competitor on team 0, in whichever order the two Rounds ended; both Rounds
\* were run with the scene's enemy as the second code, team 1.
C14_ResultsAttributed ==
  /\ \A i \in Built :
       /\ IsRoundOf("baseline", bres[i].baseline)
       /\ IsRoundOf("new", bres[i].new)
       /\ bres[i].scene = converted[i].scene
  /\ \A i \in Workers : \A p \in PlayerSet :
       rres[i][p] # NoReturn =>
         /\ sim_codes[i][p][1] = PlayerAI(p)
         /\ sim_codes[i][p][2] = EnemyAI(scene_mapping[converted[i].scene])

C14_Witness ==
  \E i \in Built :
    /\ bres[i].baseline # bres[i].new
    /\ bres[i].baseline.team0_wins # <<>>
    /\ bres[i].new.team0_wins = <<>>
    /\ RoundsOf("baseline") \cap RoundsOf("new") = {}

\* ------------------------------------------------------------------ the fold in other orders
\* how often each time occurs in a list of times
TimesBag(ts) == [t \in Times |-> Cardinality({k \in DOMAIN ts : ts[k] = t})]

\* the collected trial results taken in the order perm
Reordered(perm) == [k \in DOMAIN seed_statuses |-> seed_statuses[perm[k]]]

SameAggregate(a, b) ==
  /\ Elems(a.team0_wins) = Elems(b.team0_wins)
  /\ Elems(a.team1_wins) = Elems(b.team1_wins)
  /\ Elems(a.draws) = Elems(b.draws)
  /\ Len(a.team0_wins) = Len(b.team0_wins)
  /\ Len(a.team1_wins) = Len(b.team1_wins)
  /\ Len(a.draws) = Len(b.draws)
  /\ TimesBag(a.times) = TimesBag(b.times)

\* C15: folding the collected trial results in any other order gives what
\* run_simulations returned: an error in both or in neither, and for a Results
\* the same seeds and the same number of seeds in every bucket and the same
\* times counted with multiplicity.
C15_FoldOrderIndependent ==
  pc = "done" =>
    \A perm \in Orders(DOMAIN seed_statuses) :
      LET other == FoldFrom(DefaultResults, Reordered(perm), 1) IN
      /\ other.tag = ret.tag
      /\ ret.tag = "Ok" => SameAggregate(other.val, ret.val)

C15_Witness ==
  /\ RoundOk /\ rounds >= 2
  /\ ret.val.team0_wins # <<>> /\ ret.val.draws # <<>>
  /\ ret.val.times[1] # ret.val.times[2]
  /\ \E perm \in Orders(DOMAIN seed_statuses) :
       FoldFrom(DefaultResults, Reordered(perm), 1).val # ret.val

\* ------------------------------------------------------------------ the two exits of a trial
\* what the trial that returned last handed back; sim and steps still hold
\* the simulation as that trial left it
LastEntry == seed_statuses[Len(seed_statuses)]

TrialReturned == pc # "loop" /\ seed_statuses # <<>>

\* C16: the tick budget check comes before the status check: a trial whose
\* simulation stands at MAX_TICKS returned the timed-out outcome with the
\* warning, whatever status that last step produced, and its seed is counted
\* for team 1; a trial hands back the engine's own status only when the
\* simulation stopped running at a tick below MAX_TICKS.
C16_BudgetCheckFirst ==
  TrialReturned =>
    /\ sim.tick = MAX_TICKS =>
         /\ LastEntry.status = Failed
         /\ LastEntry.seed \in warned
         /\ RoundOk => LastEntry.seed \in Elems(ret.val.team1_wins)
    /\ sim.tick < MAX_TICKS =>
         /\ LastEntry.status = sim.status
         /\ sim.status # Running
         /\ LastEntry.seed \notin warned
    /\ LastEntry.status \in {Draw} \cup {Victory(t) : t \in 0..MaxTeam} =>
         sim.tick < MAX_TICKS

C16_Witness ==
  /\ RoundOk
  /\ sim.tick = MAX_TICKS /\ sim.status = Victory(0)
  /\ LastEntry.status = Failed
  /\ LastEntry.seed \in Elems(ret.val.team1_wins)

\* C17: run_simulation never hands back Status::Running, neither step by step
\* nor as a function of what the engine reports, so the fold never reaches its
\* Running arm and a Round never fails with "Scenario should not be running".
C17_NeverReturnsRunning ==
  /\ \A r \in TrialReturns : r[1] \in Status \ {Running}
  /\ \A e \in Elems(seed_statuses) : Classify(e.status) # "running"
  /\ RoundErr =>
       /\ ret.msg # FoldError(Running)
       /\ InvalidTeam(ErrEntry.status)

C17_Witness ==
  /\ RoundErr /\ rounds >= 2
  /\ TimedOutSeeds # {}
  /\ sim.status = Running /\ sim.tick = MAX_TICKS

\* ------------------------------------------------------------------ the reports of a matrix run
\* the scene names of the collected BenchmarkResults, in the vector's order
ReportScenes == [i \in DOMAIN bench_results |-> bench_results[i].scene]

\* the stdout lines of one kind
LinesOf(kind) == {k \in DOMAIN stdout : stdout[k][1] = kind}

\* C18: a matrix run that returns has one BenchmarkResults per distinct name of
\* the listing, a repeated name giving one; each carries the name of the entry
\* its two Rounds were run for, against that scene's enemy; their number is the
\* total every progress line shows, and each is printed once.
C18_OneReportPerScene ==
  mpc \in {"results", "exit"} =>
    /\ Len(bench_results) = Cardinality(Elems(scenes))
    /\ Elems(ReportScenes) = Elems(scenes)
    /\ NoDup(ReportScenes)
    /\ Len(bench_results) = total
    /\ \A i \in DOMAIN bench_results :
         /\ bench_results[i].scene = converted[i].scene
         /\ \A p \in PlayerSet :
              sim_codes[i][p] =
                RoundCodes(PlayerAI(p), EnemyAI(load_safe(bench_results[i].scene).enemy))
    /\ Cardinality(LinesOf("Completed")) = Len(bench_results)
    /\ \A k \in LinesOf("Completed") : stdout[k][3] = Len(bench_results)
    /\ mpc = "exit" =>
         /\ Cardinality(LinesOf("Results for")) = total
         /\ {stdout[k][2] : k \in LinesOf("Results for")} = Elems(scenes)

C18_Witness ==
  /\ mpc = "exit"
  /\ Len(scenes) = 2 /\ scenes[1] = scenes[2]
  /\ Len(bench_results) = 1
  /\ bench_results[1].scene = scenes[1]

====
